---- MODULE Spec2Model ----
(***************************************************************************)
(* Document confidentiality-and-integrity pipeline of the backend:         *)
(* backend/controllers/documentController.js (upload, verify, download,    *)
(* list, rename, delete) over the record store (Document), the audit sink  *)
(* (Log), the master key and the signing key.                              *)
(*                                                                         *)
(* The cryptographic helpers (utils/crypto, utils/signDocument,            *)
(* utils/helper) are modelled symbolically: a ciphertext remembers the     *)
(* plaintext, key and iv that made it, a digest remembers its preimage, a  *)
(* signature remembers the message and the signing key.                    *)
(***************************************************************************)
EXTENDS Integers, Sequences, FiniteSets, TLC

VARIABLES
    docs,        \* the Document collection: id -> record, or NoDoc
    nextId,      \* number of records ever created (the next _id is nextId + 1)
    entropy,     \* number of values drawn from crypto.randomBytes so far
    masterKey,   \* sha256(process.env.MASTER_KEY) of the running process
    signKey,     \* the signing keypair held by utils/signDocument
    envSteps,    \* number of changes made from outside the controller
    orig,        \* history: id -> what upload wrote, and under which keys
                 \* (forgotten when the record is deleted)
    last,        \* the request handled last: inputs, outcome, trace, and the
                 \* events it wrote to the audit sink (Log.create)
    inflight     \* download / verify requests whose findOne has resolved and
                 \* whose handler has not yet run on: each holds the document
                 \* object it was given

vars == <<docs, nextId, entropy, masterKey, signKey, envSteps, orig, last, inflight>>

(***************************************************************************)
(* Bounds                                                                  *)
(***************************************************************************)
MaxDocs == 2        \* uploads that reach Document.create
MaxEnvSteps == 1    \* changes from outside the controller (tamper, restart)
MaxInflight == 2    \* download / verify requests suspended at the same time

(***************************************************************************)
(* Input domains                                                           *)
(***************************************************************************)
Users == {"u1", "u2"}
Plain == {"p1", "p2"}               \* document bytes
Garbage == "garbage"                 \* bytes a wrong key / iv / ciphertext decrypts to
NoBytes == "none"
Ids == 1..MaxDocs
BadId == 0                           \* an id that is no ObjectId
ReqIds == Ids \cup {BadId}
Secrets == {"s1", "s2"}              \* values of process.env.MASTER_KEY
SignKeys == {1, 2}                   \* signing keypairs
NoDoc == [userId |-> "nobody"]
NoFile == [buffer |-> NoBytes, originalname |-> <<>>, mimetype |-> "none"]
Files == {[buffer |-> p, originalname |-> <<"a">>, mimetype |-> "text/plain"] : p \in Plain}
Faults == {"none", "doc", "log"}     \* which store call of the request rejects
NameInputs == {<<" ">>, <<" ", "b", " ">>}
NoName == <<"undefined">>

(***************************************************************************)
(* masterKey: sha256 of the operator secret                                *)
(***************************************************************************)
DeriveMasterKey(secret) == [sha256 |-> secret]

(***************************************************************************)
(* utils/crypto, utils/signDocument, utils/helper (symbolic)               *)
(***************************************************************************)
generateHash(buffer) == [of |-> buffer]

createDocumentSignature(buffer, sk) ==
    [signature |-> [msg |-> buffer, key |-> sk], keyFingerprint |-> [fp |-> sk]]

verifyDocumentSignature(data, signature, sk) ==
    signature = [msg |-> data, key |-> sk]

encrypt(buffer, key, iv) ==
    [encrypted |-> [pt |-> buffer, key |-> key, iv |-> iv], iv |-> iv]

encryptKey(aesKey, mk) == [key |-> aesKey, mk |-> mk]

DecryptionFailed == "DecryptionFailure"
KeyUnwrapFailed == -1
GarbageKey == 0
Malformed == [pt |-> NoBytes, key |-> GarbageKey, iv |-> 0]

\* decryptKey: the per-document key under the right master key; under another
\* master key the primitive rejects the input or yields garbage
decryptKey(encryptedKey, mk) ==
    IF encryptedKey.mk = mk THEN {encryptedKey.key}
    ELSE {KeyUnwrapFailed, GarbageKey}

\* decrypt: the plaintext under the exact (key, iv); otherwise the primitive
\* rejects the input or yields garbage
decrypt(encryptedData, key, iv) ==
    IF encryptedData = Malformed THEN {DecryptionFailed}
    ELSE IF encryptedData.key = key /\ encryptedData.iv = iv THEN {encryptedData.pt}
    ELSE {DecryptionFailed, Garbage}

\* verifyDocumentIntegrity throws IntegrityError unless this holds
verifyDocumentIntegrity(data, sha256Hash) == generateHash(data) = sha256Hash

(***************************************************************************)
(* Errors, outcomes, audit events                                          *)
(***************************************************************************)
NoStatus == 0     \* error.statusCode of an error that is no AppError

AppError(message, statusCode) ==
    [name |-> "AppError", message |-> message, statusCode |-> statusCode]
TypeError(message) ==
    [name |-> "TypeError", message |-> <<message>>, statusCode |-> NoStatus]
StoreError(message) ==
    [name |-> "MongoError", message |-> <<message>>, statusCode |-> NoStatus]
CastError ==
    [name |-> "CastError", message |-> <<"Cast to ObjectId failed">>, statusCode |-> NoStatus]
IntegrityError ==
    [name |-> "IntegrityError", message |-> <<"Document integrity check failed">>,
     statusCode |-> NoStatus]
CryptoError(message) ==
    [name |-> "Error", message |-> <<message>>, statusCode |-> NoStatus]

\* next(err): the error is forwarded to the error middleware
NextErr(err) ==
    [via |-> "next", status |-> err.statusCode, message |-> err.message,
     body |-> NoBytes, integrity |-> "none", authenticity |-> "none"]

\* res.status(s).json(...) / res.status(s).send(...) / res.status(s).end()
Respond(status, message, body, integrity, authenticity) ==
    [via |-> "res", status |-> status, message |-> message,
     body |-> body, integrity |-> integrity, authenticity |-> authenticity]

\* Log.create({action, entity: "Document", userId, documentId, documentDetails})
LogEvent(action, userId, documentId, fileName, signatureVerified) ==
    [action |-> action, userId |-> userId, documentId |-> documentId,
     fileName |-> fileName, signatureVerified |-> signatureVerified]

\* one value carried by a JSON body, tagged with what it is
Item(kind, value) == <<kind, value>>

\* the result of running one handler: what it sent, what it left in the store,
\* what it wrote to the audit sink, and how far the pipeline got; data is the
\* `data` member of the JSON body of its response (empty unless WithData)
Result(outs, ds, created, events, stage, digestOk, sigOk) ==
    [outs |-> outs, docs |-> ds, created |-> created, events |-> events,
     stage |-> stage, digestOk |-> digestOk, sigOk |-> sigOk, data |-> {}]

WithData(r, data) == [r EXCEPT !.data = data]

\* Document.findOne({_id: id, userId}) on a well-formed id
FindOne(id, userId) ==
    IF id \in Ids /\ docs[id] # NoDoc /\ docs[id].userId = userId THEN docs[id] ELSE NoDoc

(***************************************************************************)
(* uploadDocument                                                          *)
(***************************************************************************)
\* UploadRecord storing the key's randomness in the iv field
UploadRecordWrongIv(userId, file) ==
    LET sha256Hash == generateHash(file.buffer)
        sg == createDocumentSignature(file.buffer, signKey)
        aesKey == entropy + 1
        enc == encrypt(file.buffer, aesKey, entropy + 2)
    IN  [userId |-> userId,
         originalName |-> file.originalname,
         mimeType |-> file.mimetype,
         encryptedData |-> enc.encrypted,
         iv |-> aesKey,
         encryptedKey |-> encryptKey(aesKey, masterKey),
         sha256Hash |-> sha256Hash,
         digitalSignature |-> sg.signature,
         publicKeyFingerprint |-> sg.keyFingerprint]

\* UploadRecord with the per-document key drawn once, when the module loads
UploadRecordStaticKey(userId, file) ==
    LET sha256Hash == generateHash(file.buffer)
        sg == createDocumentSignature(file.buffer, signKey)
        aesKey == 1
        enc == encrypt(file.buffer, aesKey, entropy + 2)
    IN  [userId |-> userId,
         originalName |-> file.originalname,
         mimeType |-> file.mimetype,
         encryptedData |-> enc.encrypted,
         iv |-> enc.iv,
         encryptedKey |-> encryptKey(aesKey, masterKey),
         sha256Hash |-> sha256Hash,
         digitalSignature |-> sg.signature,
         publicKeyFingerprint |-> sg.keyFingerprint]

UploadRecord(userId, file) ==
    LET sha256Hash == generateHash(file.buffer)
        sg == createDocumentSignature(file.buffer, signKey)
        aesKey == entropy + 1
        enc == encrypt(file.buffer, aesKey, entropy + 2)
    IN  [userId |-> userId,
         originalName |-> file.originalname,
         mimeType |-> file.mimetype,
         encryptedData |-> enc.encrypted,
         iv |-> enc.iv,
         encryptedKey |-> encryptKey(aesKey, masterKey),
         sha256Hash |-> sha256Hash,
         digitalSignature |-> sg.signature,
         publicKeyFingerprint |-> sg.keyFingerprint]

\* UploadResponseData that echoes the per-document key to the uploader
UploadResponseDataWithKey(id, document) ==
    {Item("id", id), Item("name", document.originalName),
     Item("digest", document.sha256Hash), Item("signature", document.digitalSignature),
     Item("bytes", document.encryptedKey.key)}

\* data of the 201 response: id, name, hash and the head of the signature
UploadResponseData(id, document) ==
    {Item("id", id), Item("name", document.originalName),
     Item("digest", document.sha256Hash), Item("signature", document.digitalSignature)}

uploadDocument(userId, file, fault) ==
    IF file = NoFile
    THEN \* next(400) without return, then the destructuring of undefined throws
         {Result(<<NextErr(AppError(<<"No file uploaded">>, 400)),
                   NextErr(AppError(<<"Upload failed: ", "Cannot destructure property 'buffer'">>, 500))>>,
                 docs, 0, <<>>, "input", "none", "none")}
    ELSE IF fault = "doc"
    THEN {Result(<<NextErr(AppError(<<"Upload failed: ", "Document.create rejected">>, 500))>>,
                 docs, 0, <<>>, "store", "none", "none")}
    ELSE LET id == nextId + 1
             stored == [docs EXCEPT ![id] = UploadRecord(userId, file)]
         IN  IF fault = "log"
             THEN {Result(<<NextErr(AppError(<<"Upload failed: ", "Log.create rejected">>, 500))>>,
                          stored, id, <<>>, "audit", "none", "none")}
             ELSE {WithData(Result(<<Respond(201, <<"success">>, NoBytes, "none", "none")>>,
                                   stored, id,
                                   <<LogEvent("UPLOAD", userId, id, file.originalname, "true")>>,
                                   "done", "none", "none"),
                            UploadResponseData(id, stored[id]))}

(***************************************************************************)
(* verifyDocumentSignaturee                                                *)
(***************************************************************************)
\* an empty digitalSignature (of the five fields the handler tests with
\* `!document.field`, the one the model ever leaves empty)
EmptySig == [msg |-> "", key |-> GarbageKey]
MissingVerificationData(document) == document.digitalSignature = EmptySig

\* decryptKey(document.encryptedKey, masterKey), then
\* decrypt(document.encryptedData, aesKey, document.iv): every pair of outcomes;
\* a decryptKey that throws leaves decrypt unevaluated
OpenOutcomes(document) ==
    UNION {{<<k, d>> : d \in (IF k = KeyUnwrapFailed THEN {DecryptionFailed}
                              ELSE decrypt(document.encryptedData, k, document.iv))} :
           k \in decryptKey(document.encryptedKey, masterKey)}

\* VerifyPipeline without the call of verifyDocumentIntegrity
VerifyPipelineNoIntegrity(document, aesKey, decryptedData) ==
    IF aesKey = KeyUnwrapFailed
    THEN Result(<<NextErr(AppError(<<"Document verification processing error">>, 500))>>,
                docs, 0, <<>>, "unwrap", "none", "none")
    ELSE IF decryptedData = DecryptionFailed
    THEN Result(<<NextErr(AppError(<<"Document verification processing error">>, 500))>>,
                docs, 0, <<>>, "decrypt", "none", "none")
    ELSE IF verifyDocumentSignature(decryptedData, document.digitalSignature, signKey)
    THEN Result(<<Respond(200, <<"Document signature verified successfully">>,
                          NoBytes, "true", "true")>>,
                docs, 0, <<>>, "done", "none", "true")
    ELSE Result(<<Respond(200, <<"Document verification completed with issues">>,
                          NoBytes, "true", "false")>>,
                docs, 0, <<>>, "done", "none", "false")

\* VerifyPipeline whose catch block answers an IntegrityError with the
\* "completed with issues" response
VerifyPipelineIntegrityAssumed(document, aesKey, decryptedData) ==
    IF aesKey = KeyUnwrapFailed
    THEN Result(<<NextErr(AppError(<<"Document verification processing error">>, 500))>>,
                docs, 0, <<>>, "unwrap", "none", "none")
    ELSE IF decryptedData = DecryptionFailed
    THEN Result(<<NextErr(AppError(<<"Document verification processing error">>, 500))>>,
                docs, 0, <<>>, "decrypt", "none", "none")
    ELSE IF ~verifyDocumentIntegrity(decryptedData, document.sha256Hash)
    THEN Result(<<Respond(200, <<"Document verification completed with issues">>,
                          NoBytes, "true", "false")>>,
                docs, 0, <<>>, "integrity", "false", "none")
    ELSE IF verifyDocumentSignature(decryptedData, document.digitalSignature, signKey)
    THEN Result(<<Respond(200, <<"Document signature verified successfully">>,
                          NoBytes, "true", "true")>>,
                docs, 0, <<>>, "done", "true", "true")
    ELSE Result(<<Respond(200, <<"Document verification completed with issues">>,
                          NoBytes, "true", "false")>>,
                docs, 0, <<>>, "done", "true", "false")

\* VerifyPipeline that throws on a signature that does not verify, as the
\* download handler does
VerifyPipelineThrowsOnSignature(document, aesKey, decryptedData) ==
    IF aesKey = KeyUnwrapFailed
    THEN Result(<<NextErr(AppError(<<"Document verification processing error">>, 500))>>,
                docs, 0, <<>>, "unwrap", "none", "none")
    ELSE IF decryptedData = DecryptionFailed
    THEN Result(<<NextErr(AppError(<<"Document verification processing error">>, 500))>>,
                docs, 0, <<>>, "decrypt", "none", "none")
    ELSE IF ~verifyDocumentIntegrity(decryptedData, document.sha256Hash)
    THEN Result(<<NextErr(AppError(
                    <<"Document integrity check failed - content may have been tampered with">>,
                    400))>>,
                docs, 0, <<>>, "integrity", "false", "none")
    ELSE IF verifyDocumentSignature(decryptedData, document.digitalSignature, signKey)
    THEN Result(<<Respond(200, <<"Document signature verified successfully">>,
                          NoBytes, "true", "true")>>,
                docs, 0, <<>>, "done", "true", "true")
    ELSE Result(<<NextErr(AppError(<<"Document verification processing error">>, 500))>>,
                docs, 0, <<>>, "signature", "true", "false")

\* the inner try block of the handler, for one outcome of decryptKey and decrypt
VerifyPipeline(document, aesKey, decryptedData) ==
    IF aesKey = KeyUnwrapFailed
    THEN Result(<<NextErr(AppError(<<"Document verification processing error">>, 500))>>,
                docs, 0, <<>>, "unwrap", "none", "none")
    ELSE IF decryptedData = DecryptionFailed
    THEN Result(<<NextErr(AppError(<<"Document verification processing error">>, 500))>>,
                docs, 0, <<>>, "decrypt", "none", "none")
    ELSE IF ~verifyDocumentIntegrity(decryptedData, document.sha256Hash)
    THEN Result(<<NextErr(AppError(
                    <<"Document integrity check failed - content may have been tampered with">>,
                    400))>>,
                docs, 0, <<>>, "integrity", "false", "none")
    ELSE IF verifyDocumentSignature(decryptedData, document.digitalSignature, signKey)
    THEN Result(<<Respond(200, <<"Document signature verified successfully">>,
                          NoBytes, "true", "true")>>,
                docs, 0, <<>>, "done", "true", "true")
    ELSE Result(<<Respond(200, <<"Document verification completed with issues">>,
                          NoBytes, "true", "false")>>,
                docs, 0, <<>>, "done", "true", "false")

\* data of the 200 responses: documentId and the verdict (document.name and
\* document.type are no fields of the record)
VerifyResponseData(id) == {Item("id", id)}

\* the handler from the point where findOne has resolved with document
\* (lines 111-186): synchronous up to its response
verifyAfterFindOne(id, document) ==
    IF document = NoDoc
    THEN {Result(<<NextErr(AppError(<<"Document not found or access denied">>, 404))>>,
                 docs, 0, <<>>, "notfound", "none", "none")}
    ELSE IF MissingVerificationData(document)
    THEN {Result(<<NextErr(AppError(<<"Document missing required verification data">>, 400))>>,
                 docs, 0, <<>>, "input", "none", "none")}
    ELSE {LET r == VerifyPipeline(document, aesKey, decryptedData)
          IN  IF r.outs[1].via = "res" THEN WithData(r, VerifyResponseData(id)) ELSE r :
             <<aesKey, decryptedData>> \in OpenOutcomes(document)}

verifyDocumentSignaturee(userId, id, fault) ==
    IF id = BadId
    THEN {Result(<<NextErr(AppError(<<"Invalid document ID format">>, 400))>>,
                 docs, 0, <<>>, "input", "none", "none")}
    ELSE IF fault = "doc"
    THEN {Result(<<NextErr(StoreError("Document.findOne rejected"))>>,
                 docs, 0, <<>>, "store", "none", "none")}
    ELSE verifyAfterFindOne(id, FindOne(id, userId))

(***************************************************************************)
(* downloadDocument                                                        *)
(***************************************************************************)
DownloadFailed(err, events, stage, digestOk, sigOk) ==
    Result(<<NextErr(AppError(<<"Download failed: ">> \o err.message, 500))>>,
           docs, 0, events, stage, digestOk, sigOk)

\* DownloadPipeline that goes on after a digest mismatch
DownloadPipelineNoIntegrityAbort(userId, document, id, aesKey, decryptedData, fault) ==
    LET digestOk == IF verifyDocumentIntegrity(decryptedData, document.sha256Hash)
                    THEN "true" ELSE "false"
    IN
    IF aesKey = KeyUnwrapFailed
    THEN DownloadFailed(CryptoError("key unwrap failed"), <<>>, "unwrap", "none", "none")
    ELSE IF decryptedData = DecryptionFailed
    THEN DownloadFailed(CryptoError("bad decrypt"), <<>>, "decrypt", "none", "none")
    ELSE IF ~verifyDocumentSignature(decryptedData, document.digitalSignature, signKey)
    THEN IF fault = "log"
         THEN DownloadFailed(StoreError("Log.create rejected"), <<>>, "audit", digestOk, "false")
         ELSE DownloadFailed(AppError(<<"Document signature verification failed">>, 403),
                             <<LogEvent("DOWNLOAD_VERIFICATION_FAILED", userId, id,
                                        document.originalName, "true")>>,
                             "signature", digestOk, "false")
    ELSE IF fault = "log"
    THEN DownloadFailed(StoreError("Log.create rejected"), <<>>, "audit", digestOk, "true")
    ELSE Result(<<Respond(200, <<>>, decryptedData, "none", "none")>>,
                docs, 0,
                <<LogEvent("DOWNLOAD", userId, id, document.originalName, "true")>>,
                "done", digestOk, "true")

\* DownloadPipeline that logs a signature that does not verify and sends anyway
DownloadPipelineSendsUnsigned(userId, document, id, aesKey, decryptedData, fault) ==
    IF aesKey = KeyUnwrapFailed
    THEN DownloadFailed(CryptoError("key unwrap failed"), <<>>, "unwrap", "none", "none")
    ELSE IF decryptedData = DecryptionFailed
    THEN DownloadFailed(CryptoError("bad decrypt"), <<>>, "decrypt", "none", "none")
    ELSE IF ~verifyDocumentIntegrity(decryptedData, document.sha256Hash)
    THEN DownloadFailed(IntegrityError, <<>>, "integrity", "false", "none")
    ELSE LET sigOk == IF verifyDocumentSignature(decryptedData, document.digitalSignature, signKey)
                      THEN "true" ELSE "false"
         IN  IF fault = "log"
             THEN DownloadFailed(StoreError("Log.create rejected"), <<>>, "audit", "true", sigOk)
             ELSE Result(<<Respond(200, <<>>, decryptedData, "none", "none")>>,
                         docs, 0,
                         <<LogEvent(IF sigOk = "true" THEN "DOWNLOAD"
                                    ELSE "DOWNLOAD_VERIFICATION_FAILED",
                                    userId, id, document.originalName, "true")>>,
                         "done", "true", sigOk)

\* DownloadPipeline that verifies the signature before it compares the digest
DownloadPipelineSignatureFirst(userId, document, id, aesKey, decryptedData, fault) ==
    IF aesKey = KeyUnwrapFailed
    THEN DownloadFailed(CryptoError("key unwrap failed"), <<>>, "unwrap", "none", "none")
    ELSE IF decryptedData = DecryptionFailed
    THEN DownloadFailed(CryptoError("bad decrypt"), <<>>, "decrypt", "none", "none")
    ELSE IF ~verifyDocumentSignature(decryptedData, document.digitalSignature, signKey)
    THEN IF fault = "log"
         THEN DownloadFailed(StoreError("Log.create rejected"), <<>>, "audit", "none", "false")
         ELSE DownloadFailed(AppError(<<"Document signature verification failed">>, 403),
                             <<LogEvent("DOWNLOAD_VERIFICATION_FAILED", userId, id,
                                        document.originalName, "true")>>,
                             "signature", "none", "false")
    ELSE IF ~verifyDocumentIntegrity(decryptedData, document.sha256Hash)
    THEN DownloadFailed(IntegrityError, <<>>, "integrity", "false", "true")
    ELSE IF fault = "log"
    THEN DownloadFailed(StoreError("Log.create rejected"), <<>>, "audit", "true", "true")
    ELSE Result(<<Respond(200, <<>>, decryptedData, "none", "none")>>,
                docs, 0,
                <<LogEvent("DOWNLOAD", userId, id, document.originalName, "true")>>,
                "done", "true", "true")

\* lines 207-261 of the handler, for one outcome of decryptKey and decrypt
DownloadPipeline(userId, document, id, aesKey, decryptedData, fault) ==
    IF aesKey = KeyUnwrapFailed
    THEN DownloadFailed(CryptoError("key unwrap failed"), <<>>, "unwrap", "none", "none")
    ELSE IF decryptedData = DecryptionFailed
    THEN DownloadFailed(CryptoError("bad decrypt"), <<>>, "decrypt", "none", "none")
    ELSE IF ~verifyDocumentIntegrity(decryptedData, document.sha256Hash)
    THEN DownloadFailed(IntegrityError, <<>>, "integrity", "false", "none")
    ELSE IF ~verifyDocumentSignature(decryptedData, document.digitalSignature, signKey)
    THEN IF fault = "log"
         THEN DownloadFailed(StoreError("Log.create rejected"), <<>>, "audit", "true", "false")
         ELSE DownloadFailed(AppError(<<"Document signature verification failed">>, 403),
                             <<LogEvent("DOWNLOAD_VERIFICATION_FAILED", userId, id,
                                        document.originalName, "true")>>,
                             "signature", "true", "false")
    ELSE IF fault = "log"
    THEN DownloadFailed(StoreError("Log.create rejected"), <<>>, "audit", "true", "true")
    ELSE Result(<<Respond(200, <<>>, decryptedData, "none", "none")>>,
                docs, 0,
                <<LogEvent("DOWNLOAD", userId, id, document.originalName, "true")>>,
                "done", "true", "true")

\* downloadAfterFindOne that saves the document object it was given back to
\* the store before it answers
downloadAfterFindOneSaves(userId, id, document, fault) ==
    IF document = NoDoc
    THEN {Result(<<NextErr(AppError(<<"File not found">>, 404)),
                   NextErr(AppError(<<"Download failed: ",
                                      "Cannot read properties of null">>, 500))>>,
                 docs, 0, <<>>, "notfound", "none", "none")}
    ELSE {[DownloadPipeline(userId, document, id, aesKey, decryptedData, fault)
              EXCEPT !.docs = [docs EXCEPT ![id] = document]] :
             <<aesKey, decryptedData>> \in OpenOutcomes(document)}

\* the handler from the point where findOne has resolved with document
\* (lines 203-261); it reads the store no more and writes it never
downloadAfterFindOne(userId, id, document, fault) ==
    IF document = NoDoc
    THEN \* next(404) without return, then document.encryptedKey of null throws
         {Result(<<NextErr(AppError(<<"File not found">>, 404)),
                   NextErr(AppError(<<"Download failed: ",
                                      "Cannot read properties of null">>, 500))>>,
                 docs, 0, <<>>, "notfound", "none", "none")}
    ELSE {DownloadPipeline(userId, document, id, aesKey, decryptedData, fault) :
             <<aesKey, decryptedData>> \in OpenOutcomes(document)}

downloadDocument(userId, id, fault) ==
    IF id = BadId
    THEN {DownloadFailed(CastError, <<>>, "input", "none", "none")}
    ELSE IF fault = "doc"
    THEN {DownloadFailed(StoreError("Document.findOne rejected"), <<>>, "store", "none", "none")}
    ELSE downloadAfterFindOne(userId, id, FindOne(id, userId), fault)

(***************************************************************************)
(* getDocuments                                                            *)
(***************************************************************************)
\* Document.find({userId}).select("_id originalName createdAt mimeType
\* digitalSignature publicKeyFingerprint")
ListResponseData(userId) ==
    UNION {{Item("id", i), Item("name", docs[i].originalName), Item("mime", docs[i].mimeType),
            Item("signature", docs[i].digitalSignature),
            Item("fingerprint", docs[i].publicKeyFingerprint)} :
              i \in {j \in Ids : docs[j] # NoDoc /\ docs[j].userId = userId}}

getDocuments(userId, fault) ==
    IF fault = "doc"
    THEN {Result(<<NextErr(AppError(<<"Failed to retrieve documents: ",
                                      "Document.find rejected">>, 500))>>,
                 docs, 0, <<>>, "store", "none", "none")}
    ELSE IF fault = "log"
    THEN {Result(<<NextErr(AppError(<<"Failed to retrieve documents: ",
                                      "Log.create rejected">>, 500))>>,
                 docs, 0, <<>>, "audit", "none", "none")}
    ELSE {WithData(Result(<<Respond(200,
                                    IF \E i \in Ids : docs[i] # NoDoc /\ docs[i].userId = userId
                                    THEN <<"success">>
                                    ELSE <<"No documents found for this user">>,
                                    NoBytes, "none", "none")>>,
                          docs, 0, <<LogEvent("READ_ALL", userId, BadId, <<>>, "none")>>,
                          "done", "none", "none"),
                   ListResponseData(userId))}

(***************************************************************************)
(* updateDocument                                                          *)
(***************************************************************************)
RECURSIVE TrimLeft(_)
TrimLeft(name) ==
    IF name # <<>> /\ Head(name) = " " THEN TrimLeft(Tail(name)) ELSE name

RECURSIVE TrimRight(_)
TrimRight(name) ==
    IF name # <<>> /\ name[Len(name)] = " "
    THEN TrimRight(SubSeq(name, 1, Len(name) - 1)) ELSE name

\* String.prototype.trim
Trim(name) == TrimRight(TrimLeft(name))

\* findOneAndUpdate(...).select("_id originalName updatedAt mimeType")
UpdateResponseData(id, document) ==
    {Item("id", id), Item("name", document.originalName), Item("mime", document.mimeType)}

UpdateFailed(err, ds, stage) ==
    Result(<<NextErr(AppError(<<"Update failed: ">> \o err.message,
                              IF err.statusCode # NoStatus THEN err.statusCode ELSE 500))>>,
           ds, 0, <<>>, stage, "none", "none")

\* updateDocument whose filter names the user only (every record of the caller
\* is renamed)
updateDocumentAllOfUser(userId, id, originalName, fault) ==
    IF originalName = NoName \/ Trim(originalName) = <<>>
    THEN {UpdateFailed(AppError(<<"Document name is required">>, 400), docs, "input")}
    ELSE IF id = BadId
    THEN {UpdateFailed(CastError, docs, "input")}
    ELSE IF fault = "doc"
    THEN {UpdateFailed(StoreError("Document.findOneAndUpdate rejected"), docs, "store")}
    ELSE IF FindOne(id, userId) = NoDoc
    THEN {UpdateFailed(AppError(<<"Document not found or unauthorized">>, 404), docs, "notfound")}
    ELSE LET updated == [i \in Ids |->
                            IF docs[i] # NoDoc /\ docs[i].userId = userId
                            THEN [docs[i] EXCEPT !.originalName = Trim(originalName)]
                            ELSE docs[i]]
         IN
         IF fault = "log"
         THEN {UpdateFailed(StoreError("Log.create rejected"), updated, "audit")}
         ELSE {WithData(Result(<<Respond(200, <<"success">>, NoBytes, "none", "none")>>,
                               updated, 0,
                               <<LogEvent("UPDATE", userId, id, Trim(originalName), "none")>>,
                               "done", "none", "none"),
                        UpdateResponseData(id, updated[id]))}

\* updateDocument that passes the whole request body to findOneAndUpdate (a
\* body carrying digitalSignature overwrites the stored one)
updateDocumentWholeBody(userId, id, originalName, fault) ==
    IF originalName = NoName \/ Trim(originalName) = <<>>
    THEN {UpdateFailed(AppError(<<"Document name is required">>, 400), docs, "input")}
    ELSE IF id = BadId
    THEN {UpdateFailed(CastError, docs, "input")}
    ELSE IF fault = "doc"
    THEN {UpdateFailed(StoreError("Document.findOneAndUpdate rejected"), docs, "store")}
    ELSE IF FindOne(id, userId) = NoDoc
    THEN {UpdateFailed(AppError(<<"Document not found or unauthorized">>, 404), docs, "notfound")}
    ELSE LET updated == [docs EXCEPT ![id].originalName = Trim(originalName),
                                     ![id].digitalSignature = EmptySig] IN
         IF fault = "log"
         THEN {UpdateFailed(StoreError("Log.create rejected"), updated, "audit")}
         ELSE {WithData(Result(<<Respond(200, <<"success">>, NoBytes, "none", "none")>>,
                               updated, 0,
                               <<LogEvent("UPDATE", userId, id, Trim(originalName), "none")>>,
                               "done", "none", "none"),
                        UpdateResponseData(id, updated[id]))}

\* updateDocument whose filter names the id only
updateDocumentAnyUser(userId, id, originalName, fault) ==
    IF originalName = NoName \/ Trim(originalName) = <<>>
    THEN {UpdateFailed(AppError(<<"Document name is required">>, 400), docs, "input")}
    ELSE IF id = BadId
    THEN {UpdateFailed(CastError, docs, "input")}
    ELSE IF fault = "doc"
    THEN {UpdateFailed(StoreError("Document.findOneAndUpdate rejected"), docs, "store")}
    ELSE IF docs[id] = NoDoc
    THEN {UpdateFailed(AppError(<<"Document not found or unauthorized">>, 404), docs, "notfound")}
    ELSE LET updated == [docs EXCEPT ![id].originalName = Trim(originalName)] IN
         IF fault = "log"
         THEN {UpdateFailed(StoreError("Log.create rejected"), updated, "audit")}
         ELSE {WithData(Result(<<Respond(200, <<"success">>, NoBytes, "none", "none")>>,
                               updated, 0,
                               <<LogEvent("UPDATE", userId, id, Trim(originalName), "none")>>,
                               "done", "none", "none"),
                        UpdateResponseData(id, updated[id]))}

updateDocument(userId, id, originalName, fault) ==
    IF originalName = NoName \/ Trim(originalName) = <<>>
    THEN {UpdateFailed(AppError(<<"Document name is required">>, 400), docs, "input")}
    ELSE IF id = BadId
    THEN {UpdateFailed(CastError, docs, "input")}
    ELSE IF fault = "doc"
    THEN {UpdateFailed(StoreError("Document.findOneAndUpdate rejected"), docs, "store")}
    ELSE IF FindOne(id, userId) = NoDoc
    THEN {UpdateFailed(AppError(<<"Document not found or unauthorized">>, 404), docs, "notfound")}
    ELSE LET updated == [docs EXCEPT ![id].originalName = Trim(originalName)] IN
         IF fault = "log"
         THEN {UpdateFailed(StoreError("Log.create rejected"), updated, "audit")}
         ELSE {WithData(Result(<<Respond(200, <<"success">>, NoBytes, "none", "none")>>,
                               updated, 0,
                               <<LogEvent("UPDATE", userId, id, Trim(originalName), "none")>>,
                               "done", "none", "none"),
                        UpdateResponseData(id, updated[id]))}

(***************************************************************************)
(* deleteDocument                                                          *)
(***************************************************************************)
DeleteFailed(err, ds, stage) ==
    Result(<<NextErr(AppError(<<"Deletion failed: ">> \o err.message,
                              IF err.statusCode # NoStatus THEN err.statusCode ELSE 500))>>,
           ds, 0, <<>>, stage, "none", "none")

\* deleteDocument whose filter names the id only
deleteDocumentAnyUser(userId, docId, fault) ==
    IF docId = BadId
    THEN {DeleteFailed(CastError, docs, "input")}
    ELSE IF fault = "doc"
    THEN {DeleteFailed(StoreError("Document.findOneAndDelete rejected"), docs, "store")}
    ELSE IF docs[docId] = NoDoc
    THEN {DeleteFailed(AppError(<<"Document not found or unauthorized">>, 404), docs, "notfound")}
    ELSE LET removed == [docs EXCEPT ![docId] = NoDoc] IN
         IF fault = "log"
         THEN {DeleteFailed(StoreError("Log.create rejected"), removed, "audit")}
         ELSE {Result(<<Respond(204, <<>>, NoBytes, "none", "none")>>,
                      removed, 0,
                      <<LogEvent("DELETE", userId, docId, docs[docId].originalName, "none")>>,
                      "done", "none", "none")}

deleteDocument(userId, docId, fault) ==
    IF docId = BadId
    THEN {DeleteFailed(CastError, docs, "input")}
    ELSE IF fault = "doc"
    THEN {DeleteFailed(StoreError("Document.findOneAndDelete rejected"), docs, "store")}
    ELSE IF FindOne(docId, userId) = NoDoc
    THEN {DeleteFailed(AppError(<<"Document not found or unauthorized">>, 404), docs, "notfound")}
    ELSE LET removed == [docs EXCEPT ![docId] = NoDoc] IN
         IF fault = "log"
         THEN {DeleteFailed(StoreError("Log.create rejected"), removed, "audit")}
         ELSE {Result(<<Respond(204, <<>>, NoBytes, "none", "none")>>,
                      removed, 0,
                      <<LogEvent("DELETE", userId, docId, docs[docId].originalName, "none")>>,
                      "done", "none", "none")}

(***************************************************************************)
(* State machine                                                           *)
(***************************************************************************)
NoOrig == [pt |-> NoBytes]
Idle ==
    [op |-> "none", userId |-> "nobody", id |-> BadId,
     outs |-> <<>>, created |-> 0, events |-> <<>>, stage |-> "none",
     digestOk |-> "none", sigOk |-> "none", data |-> {}]

Request(op, userId, id, r) ==
    [op |-> op, userId |-> userId, id |-> id,
     outs |-> r.outs, created |-> r.created, events |-> r.events, stage |-> r.stage,
     digestOk |-> r.digestOk, sigOk |-> r.sigOk, data |-> r.data]

Range(seq) == {seq[i] : i \in 1..Len(seq)}

Init ==
    /\ docs = [i \in Ids |-> NoDoc]
    /\ nextId = 0
    /\ entropy = 0
    /\ masterKey = DeriveMasterKey("s1")
    /\ signKey = 1
    /\ envSteps = 0
    /\ orig = [i \in Ids |-> NoOrig]
    /\ last = Idle
    /\ inflight = {}

\* what an upload that ended as r leaves behind
UploadEffect(file, r) ==
    /\ docs' = r.docs
    /\ nextId' = IF r.created # 0 THEN r.created ELSE nextId
    /\ entropy' = IF file # NoFile THEN entropy + 2 ELSE entropy
    /\ orig' = IF r.created # 0
               THEN [orig EXCEPT ![r.created] =
                        [pt |-> file.buffer, rec |-> r.docs[r.created],
                         mk |-> masterKey, sk |-> signKey, renamed |-> FALSE]]
               ELSE orig
    /\ UNCHANGED <<masterKey, signKey, envSteps>>

\* POST /api/documents/upload
Upload ==
    \E userId \in Users, file \in Files \cup {NoFile}, fault \in Faults :
        /\ file # NoFile => nextId < MaxDocs /\ entropy < 2 * MaxDocs
        /\ \E r \in uploadDocument(userId, file, fault) :
            /\ UploadEffect(file, r)
            /\ last' = Request("upload", userId, r.created, r)
        /\ UNCHANGED inflight

\* GET /api/documents/:id/verify
Verify ==
    \E userId \in Users, id \in ReqIds, fault \in Faults \ {"log"} :
        \E r \in verifyDocumentSignaturee(userId, id, fault) :
            /\ docs' = r.docs
            /\ last' = Request("verify", userId, id, r)
            /\ UNCHANGED <<nextId, entropy, masterKey, signKey, envSteps, orig, inflight>>

\* GET /api/documents/:id/download
Download ==
    \E userId \in Users, id \in ReqIds, fault \in Faults :
        \E r \in downloadDocument(userId, id, fault) :
            /\ docs' = r.docs
            /\ last' = Request("download", userId, id, r)
            /\ UNCHANGED <<nextId, entropy, masterKey, signKey, envSteps, orig, inflight>>

\* GET /api/documents
List ==
    \E userId \in Users, fault \in Faults :
        \E r \in getDocuments(userId, fault) :
            /\ docs' = r.docs
            /\ last' = Request("list", userId, BadId, r)
            /\ UNCHANGED <<nextId, entropy, masterKey, signKey, envSteps, orig, inflight>>

\* what a rename that ended as r leaves behind
RenameEffect(id, r) ==
    /\ docs' = r.docs
    /\ orig' = IF r.docs # docs THEN [orig EXCEPT ![id].renamed = TRUE] ELSE orig
    /\ UNCHANGED <<nextId, entropy, masterKey, signKey, envSteps>>

\* PATCH /api/documents/:id
Rename ==
    \E userId \in Users, id \in ReqIds, originalName \in NameInputs \cup {NoName},
       fault \in Faults :
        \E r \in updateDocument(userId, id, originalName, fault) :
            /\ RenameEffect(id, r)
            /\ last' = Request("update", userId, id, r)
            /\ UNCHANGED inflight

\* what a delete that ended as r leaves behind
DeleteEffect(docId, r) ==
    /\ docs' = r.docs
    /\ orig' = IF r.docs # docs THEN [orig EXCEPT ![docId] = NoOrig] ELSE orig
    /\ UNCHANGED <<nextId, entropy, masterKey, signKey, envSteps>>

\* DELETE /api/documents/:docId
Delete ==
    \E userId \in Users, docId \in ReqIds, fault \in Faults :
        \E r \in deleteDocument(userId, docId, fault) :
            /\ DeleteEffect(docId, r)
            /\ last' = Request("delete", userId, docId, r)
            /\ UNCHANGED inflight

(***************************************************************************)
(* Changes from outside the controller: the record store is a database     *)
(* others can write, and the keys are read once at process start           *)
(***************************************************************************)
\* ciphertexts a writer of the store can put in place of a record's own:
\* one the cipher rejects, and its own with bits flipped (decrypting to other bytes)
AlteredData(id) ==
    ({Malformed} \cup {[docs[id].encryptedData EXCEPT !.pt = q] : q \in Plain})
    \ {docs[id].encryptedData}

AlteredHash(id) == {generateHash(q) : q \in Plain} \ {docs[id].sha256Hash}

\* signatures a writer of the store can put in place of a record's own: none,
\* and one made over the same bytes with another keypair
AlteredSignature(id) ==
    ({EmptySig}
       \cup {createDocumentSignature(docs[id].digitalSignature.msg, k).signature :
                 k \in SignKeys \ {docs[id].digitalSignature.key}})
    \ {docs[id].digitalSignature}

TamperData ==
    /\ envSteps < MaxEnvSteps
    /\ \E id \in Ids :
        /\ docs[id] # NoDoc
        /\ \E c \in AlteredData(id) : docs' = [docs EXCEPT ![id].encryptedData = c]
    /\ envSteps' = envSteps + 1
    /\ last' = Idle
    /\ UNCHANGED <<nextId, entropy, masterKey, signKey, orig, inflight>>

TamperHash ==
    /\ envSteps < MaxEnvSteps
    /\ \E id \in Ids :
        /\ docs[id] # NoDoc
        /\ \E h \in AlteredHash(id) : docs' = [docs EXCEPT ![id].sha256Hash = h]
    /\ envSteps' = envSteps + 1
    /\ last' = Idle
    /\ UNCHANGED <<nextId, entropy, masterKey, signKey, orig, inflight>>

TamperSignature ==
    /\ envSteps < MaxEnvSteps
    /\ \E id \in Ids :
        /\ docs[id] # NoDoc
        /\ \E sg \in AlteredSignature(id) : docs' = [docs EXCEPT ![id].digitalSignature = sg]
    /\ envSteps' = envSteps + 1
    /\ last' = Idle
    /\ UNCHANGED <<nextId, entropy, masterKey, signKey, orig, inflight>>

\* the process restarts with another MASTER_KEY
RestartWithMasterKey ==
    /\ envSteps < MaxEnvSteps
    /\ \E secret \in Secrets :
        /\ DeriveMasterKey(secret) # masterKey
        /\ masterKey' = DeriveMasterKey(secret)
    /\ envSteps' = envSteps + 1
    /\ last' = Idle
    /\ UNCHANGED <<docs, nextId, entropy, signKey, orig, inflight>>

\* the process restarts with another signing keypair
RestartWithSigningKey ==
    /\ envSteps < MaxEnvSteps
    /\ \E k \in SignKeys \ {signKey} : signKey' = k
    /\ envSteps' = envSteps + 1
    /\ last' = Idle
    /\ UNCHANGED <<docs, nextId, entropy, masterKey, orig, inflight>>

Next ==
    \/ Upload
    \/ Verify
    \/ Download
    \/ List
    \/ Rename
    \/ Delete
    \/ TamperData
    \/ TamperHash
    \/ TamperSignature
    \/ RestartWithMasterKey
    \/ RestartWithSigningKey

Spec == Init /\ [][Next]_vars

(***************************************************************************)
(* Interleaved requests: a download or verify is suspended at its          *)
(* `await Document.findOne(...)`; other requests run before the handler    *)
(* goes on with the document object it was given. What follows the lookup  *)
(* touches the store no more (the later `await Log.create(...)` of         *)
(* download is followed only by sending the bytes already decrypted), so   *)
(* the rest of the handler is one step. Here `last` is the download or     *)
(* verify that finished last; an upload, rename or delete running in       *)
(* between resets it.                                                      *)
(***************************************************************************)
UploadMeanwhile ==
    \E userId \in Users, file \in Files, fault \in Faults :
        /\ nextId < MaxDocs /\ entropy < 2 * MaxDocs
        /\ \E r \in uploadDocument(userId, file, fault) : UploadEffect(file, r)
        /\ last' = Idle
        /\ UNCHANGED inflight

RenameMeanwhile ==
    \E userId \in Users, id \in Ids, originalName \in NameInputs, fault \in Faults :
        /\ \E r \in updateDocument(userId, id, originalName, fault) :
              /\ r.docs # docs
              /\ RenameEffect(id, r)
        /\ last' = Idle
        /\ UNCHANGED inflight

DeleteMeanwhile ==
    \E userId \in Users, docId \in Ids, fault \in Faults :
        /\ \E r \in deleteDocument(userId, docId, fault) :
              /\ r.docs # docs
              /\ DeleteEffect(docId, r)
        /\ last' = Idle
        /\ UNCHANGED inflight

\* findOne resolves: the handler holds the document (or null); pt remembers,
\* for the properties, the plaintext that was uploaded as this record
BeginOpen ==
    \E op \in {"download", "verify"}, userId \in Users, id \in Ids :
        /\ Cardinality(inflight) < MaxInflight
        /\ inflight' = inflight \cup
              {[op |-> op, userId |-> userId, id |-> id,
                document |-> FindOne(id, userId),
                pt |-> IF FindOne(id, userId) # NoDoc THEN orig[id].pt ELSE NoBytes]}
        /\ inflight' # inflight
        /\ UNCHANGED <<docs, nextId, entropy, masterKey, signKey, envSteps, orig, last>>

\* the handler runs from the resolved findOne to its response or error
FinishOpen ==
    \E q \in inflight, fault \in {"none", "log"} :
        \E r \in (IF q.op = "download"
                   THEN downloadAfterFindOne(q.userId, q.id, q.document, fault)
                   ELSE verifyAfterFindOne(q.id, q.document)) :
            /\ q.op = "verify" => fault = "none"
            /\ docs' = r.docs
            /\ last' = Request(q.op, q.userId, q.id, r)
            /\ inflight' = inflight \ {q}
            /\ UNCHANGED <<nextId, entropy, masterKey, signKey, envSteps, orig>>

NextInterleaved ==
    \/ UploadMeanwhile
    \/ RenameMeanwhile
    \/ DeleteMeanwhile
    \/ BeginOpen
    \/ FinishOpen

SpecInterleaved == Init /\ [][NextInterleaved]_vars

(***************************************************************************)
(* Vocabulary of the properties                                            *)
(***************************************************************************)
CryptoFields(rec) ==
    <<rec.encryptedData, rec.iv, rec.encryptedKey, rec.sha256Hash,
      rec.digitalSignature, rec.publicKeyFingerprint>>

\* the record is in the store, and its crypto fields, the master key and the
\* signing key are those of its upload
Intact(id) ==
    /\ id \in Ids
    /\ docs[id] # NoDoc
    /\ orig[id] # NoOrig
    /\ CryptoFields(docs[id]) = CryptoFields(orig[id].rec)
    /\ masterKey = orig[id].mk
    /\ signKey = orig[id].sk

\* the last request was an open (download or verify) in which the lookup
\* returned the record to the handler
Opened(op) ==
    /\ last.op = op
    /\ last.stage \notin {"input", "store", "notfound"}

SentBytes == {o.body : o \in {x \in Range(last.outs) : x.via = "res"}} \ {NoBytes}
Verdicts == {<<o.integrity, o.authenticity>> : o \in {x \in Range(last.outs) : x.via = "res"}}
               \ {<<"none", "none">>}

C2_IntegrityViolationSendsNothing ==
    last.op = "download" /\ last.digestOk = "false"
        => /\ \A i \in 1..Len(last.outs) : last.outs[i].via = "next"
           /\ SentBytes = {}

C2_Witness ==
    /\ last.op = "download" /\ last.digestOk = "false"
    /\ last.id \in Ids /\ docs[last.id].encryptedData = orig[last.id].rec.encryptedData
    /\ masterKey = orig[last.id].mk

(***************************************************************************)
(* C3  Tamper detection                                                    *)
(***************************************************************************)
\* only encryptedData of the record differs from what its upload wrote
DataAltered(id) ==
    /\ id \in Ids
    /\ docs[id] # NoDoc
    /\ orig[id] # NoOrig
    /\ docs[id].encryptedData # orig[id].rec.encryptedData
    /\ [docs[id] EXCEPT !.encryptedData = orig[id].rec.encryptedData, !.originalName = <<>>]
          = [orig[id].rec EXCEPT !.originalName = <<>>]
    /\ masterKey = orig[id].mk
    /\ signKey = orig[id].sk

\* C3: a download or verify of a record whose encryptedData was altered after
\* upload ends in a decryption failure or an integrity failure, sends no
\* plaintext and reports no verdict.
C3_TamperDetection ==
    (last.op \in {"download", "verify"} /\ DataAltered(last.id))
        => /\ SentBytes = {}
           /\ Verdicts = {}
           /\ \A i \in 1..Len(last.outs) : last.outs[i].via = "next"
           /\ (Opened("download") \/ Opened("verify"))
                 => last.stage \in {"decrypt", "integrity"}

C3_Witness ==
    /\ Opened("verify") /\ DataAltered(last.id)
    /\ last.stage = "integrity"

ForeignSignature(id) ==
    /\ id \in Ids
    /\ docs[id] # NoDoc
    /\ orig[id] # NoOrig
    /\ docs[id].digitalSignature # orig[id].rec.digitalSignature
    /\ docs[id].digitalSignature # EmptySig
    /\ ~verifyDocumentSignature(orig[id].pt, docs[id].digitalSignature, signKey)
    /\ docs[id].encryptedData = orig[id].rec.encryptedData
    /\ docs[id].sha256Hash = orig[id].rec.sha256Hash
    /\ docs[id].encryptedKey = orig[id].rec.encryptedKey
    /\ docs[id].iv = orig[id].rec.iv
    /\ masterKey = orig[id].mk

\* C5: a verify of a record whose signature was replaced by a foreign one is a
\* successful call (200) with the verdict integrity = true, authenticity =
\* false; and no response or error of any verify carries the decrypted bytes.
C5_VerifyForeignSignature ==
    /\ Opened("verify") /\ ForeignSignature(last.id)
          => /\ Len(last.outs) = 1
             /\ last.outs[1].via = "res"
             /\ last.outs[1].status = 200
             /\ last.outs[1].integrity = "true"
             /\ last.outs[1].authenticity = "false"
    /\ last.op = "verify"
          => \A i \in 1..Len(last.outs) : last.outs[i].body = NoBytes

C5_Witness ==
    /\ Opened("verify") /\ ForeignSignature(last.id)
    /\ Verdicts = {<<"true", "false">>}

(***************************************************************************)
(* C6  Master key boundary                                                 *)
(***************************************************************************)
\* C6: with a master key other than the one in use at upload, a download or
\* verify of the record ends in a failure: no plaintext is sent and no verdict
\* with integrity = true is reported.
C6_MasterKeyBoundary ==
    /\ last.op \in {"download", "verify"}
    /\ last.id \in Ids
    /\ orig[last.id] # NoOrig
    /\ masterKey # orig[last.id].mk
    => /\ SentBytes = {}
       /\ \A i \in 1..Len(last.outs) :
             /\ last.outs[i].via = "next"
             /\ last.outs[i].integrity # "true"
       /\ last.digestOk # "true"

C6_Witness ==
    /\ Opened("download")
    /\ masterKey # orig[last.id].mk
    /\ last.stage = "integrity"

(***************************************************************************)
(* C7  Rename frame                                                        *)
(***************************************************************************)
\* what a download of the record does, apart from the file name it logs
DownloadView(userId, id) ==
    UNION {{<<fault, r.outs, r.stage, r.digestOk, r.sigOk>> :
               r \in downloadDocument(userId, id, fault)} : fault \in Faults}

\* C7: a successful updateDocument changes only originalName of the one
\* record matching (id, caller): its crypto fields and every other record are
\* unchanged, and a download of the renamed record does exactly what it did
\* before the rename (the same plaintext sent, the same integrity check).
C7_RenameFrame ==
    [][\A u \in Users, i \in ReqIds :
        (last'.op = "update" /\ last'.stage = "done" /\ last'.userId = u /\ last'.id = i)
        => /\ i \in Ids
           /\ docs[i] # NoDoc
           /\ docs[i].userId = u
           /\ docs' = [docs EXCEPT ![i].originalName = docs'[i].originalName]
           /\ CryptoFields(docs'[i]) = CryptoFields(docs[i])
           /\ DownloadView(u, i)' = DownloadView(u, i)
      ]_vars

\* a rename took place next to another record, and the renamed record still
\* downloads as the uploaded plaintext with a passing integrity check
C7_Witness ==
    /\ last.op = "update" /\ last.stage = "done"
    /\ docs[last.id].originalName # orig[last.id].rec.originalName
    /\ \E j \in Ids \ {last.id} : docs[j] # NoDoc /\ docs[j].userId = last.userId
    /\ \E r \in downloadDocument(last.userId, last.id, "none") :
          /\ r.outs = <<Respond(200, <<>>, orig[last.id].pt, "none", "none")>>
          /\ r.digestOk = "true"

(***************************************************************************)
(* C8  Seal atomicity                                                      *)
(***************************************************************************)
\* C8: an upload that does not end in the 201 response leaves no record of
\* that upload in the store, and the record an upload persists has all of
\* encryptedData, iv, encryptedKey, sha256Hash, digitalSignature and
\* publicKeyFingerprint populated.
C8_SealAtomicity ==
    last.op = "upload"
        => /\ (\A i \in 1..Len(last.outs) : last.outs[i].status # 201) => last.created = 0
           /\ last.created # 0 =>
                 /\ docs[last.created].encryptedData # Malformed
                 /\ docs[last.created].digitalSignature # EmptySig
                 /\ docs[last.created].sha256Hash = generateHash(orig[last.created].pt)

(***************************************************************************)
(* C9  InputError on seal                                                  *)
(***************************************************************************)
\* C9: an upload without a file is reported as "No file uploaded" (400) and as
\* nothing else; it creates no record and writes no audit event.
C9_InputError ==
    last.op = "upload" /\ last.stage = "input"
        => /\ last.outs = <<NextErr(AppError(<<"No file uploaded">>, 400))>>
           /\ last.created = 0
           /\ last.events = <<>>

(***************************************************************************)
(* C10  Audit completeness                                                 *)
(***************************************************************************)
\* C10: every upload, download, verify, rename and delete request, succeeding
\* or failing, writes exactly one audit event, which carries the actor and the
\* target document.
C10_AuditCompleteness ==
    last.op \in {"upload", "download", "verify", "update", "delete"}
        => /\ Len(last.events) = 1
           /\ last.events[1].userId = last.userId
           /\ last.events[1].documentId = last.id

(***************************************************************************)
(* C11  Typed failures                                                     *)
(***************************************************************************)
FailureKinds == {"unwrap", "decrypt", "integrity"}

\* every way a download / verify request can end in the current state
OpenResults(op) ==
    UNION {IF op = "download" THEN downloadDocument(u, i, f)
           ELSE verifyDocumentSignaturee(u, i, f) :
              u \in Users, i \in ReqIds, f \in Faults \ {"log"}}

\* what the error middleware is handed first: the status and the message
Delivered(outs) == <<outs[1].status, outs[1].message>>

\* the status and the leading, fixed part of the message
MessageForm(outs) == <<outs[1].status, Head(outs[1].message)>>

\* C11: in download and verify, a key-unwrap failure, a decryption failure and
\* an integrity violation reach the caller with pairwise different (status,
\* message), and an integrity violation or key-unwrap failure never has the
\* status and message form of a not-found or validation error.
C11_TypedFailures ==
    (last.op \in {"download", "verify"} /\ last.stage \in FailureKinds)
        => \A r \in OpenResults(last.op) :
              /\ (r.stage \in FailureKinds \ {last.stage})
                    => Delivered(r.outs) # Delivered(last.outs)
              /\ (last.stage \in {"unwrap", "integrity"} /\ r.stage \in {"notfound", "input"})
                    => MessageForm(r.outs) # MessageForm(last.outs)

(***************************************************************************)
(* C12  Key isolation                                                      *)
(***************************************************************************)
\* C12: no two records in the store share the per-document AES key or the iv,
\* and their encryptedKey values differ although all are wrapped under one
\* master key; this includes two uploads of the same plaintext by one user.
C12_KeyIsolation ==
    \A i \in Ids, j \in Ids :
        (i # j /\ docs[i] # NoDoc /\ docs[j] # NoDoc)
            => /\ docs[i].encryptedKey.key # docs[j].encryptedKey.key
               /\ docs[i].iv # docs[j].iv
               /\ docs[i].encryptedKey # docs[j].encryptedKey

\* two records of the same plaintext, uploaded by the same user under the same
\* master key
C12_Witness ==
    \E i \in Ids, j \in Ids :
        /\ i # j /\ docs[i] # NoDoc /\ docs[j] # NoDoc
        /\ orig[i] # NoOrig /\ orig[j] # NoOrig
        /\ orig[i].pt = orig[j].pt
        /\ docs[i].userId = docs[j].userId
        /\ docs[i].encryptedKey.mk = docs[j].encryptedKey.mk

(***************************************************************************)
(* C13  Per-document key confidentiality                                   *)
(***************************************************************************)
\* the values a stored record holds
RecordItems(rec) ==
    {Item("user", rec.userId), Item("name", rec.originalName), Item("mime", rec.mimeType),
     Item("ciphertext", rec.encryptedData), Item("bytes", rec.iv),
     Item("wrapped", rec.encryptedKey), Item("digest", rec.sha256Hash),
     Item("signature", rec.digitalSignature), Item("fingerprint", rec.publicKeyFingerprint)}

\* the values an audit event holds
EventItems(ev) ==
    {Item("user", ev.userId), Item("id", ev.documentId), Item("name", ev.fileName)}

\* the values a response or a forwarded error holds besides its data
OutcomeItems(o) ==
    {Item("message", o.message)}
        \cup (IF o.body # NoBytes THEN {Item("content", o.body)} ELSE {})

\* everything the last request gave to its caller or to the audit sink
Exposed ==
    last.data
        \cup UNION {OutcomeItems(o) : o \in Range(last.outs)}
        \cup UNION {EventItems(ev) : ev \in Range(last.events)}

\* the per-document keys of the records in the store, and the master keys
\* they were wrapped under or the process holds
RawKeys ==
    {Item("bytes", docs[i].encryptedKey.key) : i \in {j \in Ids : docs[j] # NoDoc}}
        \cup {Item("digest", docs[i].encryptedKey.mk) : i \in {j \in Ids : docs[j] # NoDoc}}
        \cup {Item("digest", masterKey)}

\* C13: no record in the store, no audit event and no response or error of
\* any request holds a per-document AES key or a master key; a record holds
\* its key only wrapped under a master key (encryptedKey).
C13_KeyConfidentiality ==
    /\ \A i \in Ids :
          docs[i] # NoDoc
              => /\ RecordItems(docs[i]) \cap RawKeys = {}
                 /\ docs[i].encryptedKey
                       \in {encryptKey(docs[i].encryptedKey.key, DeriveMasterKey(s)) : s \in Secrets}
    /\ Exposed \cap RawKeys = {}

\* an upload answered with the digest and signature of the record it stored,
\* next to another record
C13_Witness ==
    /\ last.op = "upload" /\ last.stage = "done"
    /\ Item("digest", docs[last.created].sha256Hash) \in last.data
    /\ \E j \in Ids \ {last.created} : docs[j] # NoDoc

(***************************************************************************)
(* C14  Crypto-field immutability                                          *)
(***************************************************************************)
\* C14: no request (upload, list, download, verify, rename, delete; any user)
\* changes encryptedData, iv, encryptedKey, sha256Hash, digitalSignature or
\* publicKeyFingerprint of a record that stays in the store, so that after
\* requests alone every record has the crypto fields its upload wrote; and a
\* download, verify or list changes no record at all.
C14_CryptoFieldImmutability ==
    [][envSteps' = envSteps
        => /\ \A i \in Ids :
                 (docs[i] # NoDoc /\ docs'[i] # NoDoc)
                     => CryptoFields(docs'[i]) = CryptoFields(docs[i])
           /\ envSteps' = 0
                 => \A i \in Ids :
                       docs'[i] # NoDoc
                           => /\ orig'[i] # NoOrig
                              /\ CryptoFields(docs'[i]) = CryptoFields(orig'[i].rec)
           /\ last'.op \in {"download", "verify", "list"} => docs' = docs
      ]_vars

\* a record was renamed and then downloaded, next to a second record
C14_Witness ==
    /\ last.op = "download" /\ last.stage = "done"
    /\ orig[last.id].renamed
    /\ docs[last.id].originalName # orig[last.id].rec.originalName
    /\ CryptoFields(docs[last.id]) = CryptoFields(orig[last.id].rec)
    /\ \E j \in Ids \ {last.id} : docs[j] # NoDoc

(***************************************************************************)
(* C15  Lifecycle                                                          *)
(***************************************************************************)
\* the id was given to a record that is no longer in the store
Deleted(i) == i \in Ids /\ i <= nextId /\ docs[i] = NoDoc

C16_OpenOrdering ==
    last.op \in {"download", "verify"}
        => /\ last.stage \in {"unwrap", "decrypt"}
                 => last.digestOk = "none" /\ last.sigOk = "none"
           /\ last.stage = "integrity"
                 => last.digestOk = "false" /\ last.sigOk = "none"
           /\ last.sigOk # "none" => last.digestOk = "true"
           /\ \A k \in 1..Len(last.outs) :
                 last.outs[k].integrity = "true" => last.digestOk = "true"
           /\ SentBytes # {} => last.digestOk = "true" /\ last.sigOk = "true"

\* a verify that went through all four steps and reported integrity = true
C16_Witness ==
    /\ last.op = "verify" /\ last.stage = "done"
    /\ last.digestOk = "true" /\ last.sigOk \in {"true", "false"}
    /\ last.outs[1].integrity = "true"
    /\ docs[last.id].sha256Hash = generateHash(docs[last.id].encryptedData.pt)

(***************************************************************************)
(* C17  Concurrent access to one document                                  *)
(***************************************************************************)
\* C17: whatever rename, delete, upload, download and verify requests run
\* between the lookup of a download or verify and the rest of its handler,
\* the download sends exactly the plaintext uploaded as the record it looked
\* up or ends in an error without sending anything, the verify reports the
\* verdict of the record as created (integrity and authenticity true) or
\* ends in an error without a verdict, the finishing request leaves the store
\* as it is, and no step changes a crypto field of a record in the store.
C17_ConcurrentAccess ==
    [][/\ \A q \in inflight :
            inflight' = inflight \ {q}
                => /\ docs' = docs
                   /\ q.op = "download"
                         => \/ /\ q.document # NoDoc
                               /\ last'.outs = <<Respond(200, <<>>, q.pt, "none", "none")>>
                            \/ /\ SentBytes' = {}
                               /\ \A k \in 1..Len(last'.outs) : last'.outs[k].via = "next"
                   /\ q.op = "verify"
                         => \/ /\ q.document # NoDoc
                               /\ Len(last'.outs) = 1
                               /\ Verdicts' = {<<"true", "true">>}
                            \/ /\ Verdicts' = {}
                               /\ \A k \in 1..Len(last'.outs) : last'.outs[k].via = "next"
       /\ \A i \in Ids :
            (docs[i] # NoDoc /\ docs'[i] # NoDoc)
                => CryptoFields(docs'[i]) = CryptoFields(docs[i])
      ]_vars

\* a download that looked the record up, was overtaken by the rename of that
\* record while another download of it was suspended too, and sent the
\* uploaded plaintext
C17_Witness ==
    /\ last.op = "download" /\ last.stage = "done"
    /\ orig[last.id] # NoOrig
    /\ SentBytes = {orig[last.id].pt}
    /\ last.events[1].fileName # docs[last.id].originalName
    /\ \E q \in inflight : q.id = last.id /\ q.document # NoDoc

(***************************************************************************)
(* C18  Owner scoping                                                      *)
(***************************************************************************)
\* C18: a download, verify, rename or delete request of user B for the id of
\* a record owned by another user A sends no plaintext, returns no verdict
\* and leaves the record store exactly as it was; the request finds no record.
C18_OwnerScoping ==
    [][\A i \in Ids, b \in Users :
        (/\ docs[i] # NoDoc
         /\ docs[i].userId # b
         /\ last'.userId = b
         /\ last'.id = i
         /\ last'.op \in {"download", "verify", "update", "delete"})
        => /\ docs' = docs
           /\ SentBytes' = {}
           /\ Verdicts' = {}
           /\ \A k \in 1..Len(last'.outs) : last'.outs[k].via = "next"
           /\ last'.stage \in {"notfound", "input", "store"}
      ]_vars

\* a rename by another user than the owner reached the lookup and was refused
C18_Witness ==
    /\ last.op = "update" /\ last.stage = "notfound"
    /\ last.id \in Ids
    /\ docs[last.id] # NoDoc
    /\ docs[last.id].userId # last.userId
    /\ docs[last.id] = orig[last.id].rec

(***************************************************************************)
(* C19  Single outcome per request                                         *)
(***************************************************************************)
\* C19: every upload, download, verify, rename and delete request produces
\* exactly one outcome: one response sent or one error forwarded through
\* next, never both and never two errors.
C19_SingleOutcome ==
    last.op \in {"upload", "download", "verify", "update", "delete"}
        => Len(last.outs) = 1

(***************************************************************************)
(* C20  State unchanged on reported failure of rename and delete           *)
(***************************************************************************)
\* C20: a rename or delete request that reports a failure ("Update failed:
\* ..." / "Deletion failed: ...") leaves the record store as it was before
\* the request.
C20_FailureLeavesStore ==
    [][(/\ last'.op \in {"update", "delete"}
        /\ \E k \in 1..Len(last'.outs) : last'.outs[k].via = "next")
        => docs' = docs
      ]_vars

(***************************************************************************)
(* C21  Audit truthfulness                                                 *)
(***************************************************************************)
\* C21: no audit event written by a download in which the signature
\* verification returned false records signatureVerified = true; the
\* DOWNLOAD_VERIFICATION_FAILED event marks the signature as not verified.
C21_AuditTruthfulness ==
    /\ (last.op = "download" /\ last.sigOk = "false")
          => \A k \in 1..Len(last.events) : last.events[k].signatureVerified # "true"
    /\ last.op = "download"
          => \A k \in 1..Len(last.events) :
                last.events[k].action = "DOWNLOAD_VERIFICATION_FAILED"
                    => last.events[k].signatureVerified # "true"

====
